---- MODULE Spec2Model ----
(***************************************************************************)
(* Model of the WhatsApp LLM Prometheus exporter (src/app/app.py).         *)
(*                                                                         *)
(* The state is the process-wide metric registry, the in-flight collection *)
(* passes (one per GET /metrics request, each a WhatsApp-API collector and *)
(* a database collector run by asyncio.gather), and the environment the    *)
(* collectors read: the relational store, the remote WhatsApp API and the  *)
(* wall clock.  One action models the synchronous code that runs between   *)
(* two suspension points (awaits) of a coroutine.                          *)
(***************************************************************************)
EXTENDS Integers, Sequences, FiniteSets, TLC

(***************************************************************************)
(* Bounds of the model.                                                    *)
(***************************************************************************)
MaxPasses == 2

(***************************************************************************)
(* Program constants.                                                      *)
(***************************************************************************)
GroupLimit == 50
SenderLimit == 10
GroupNameMaxLen == 50
SenderNameMaxLen == 50
HoursPerDay == 24
LastHourSpan == 1
HttpOk == 200

(***************************************************************************)
(* Text.  A text value is a sequence of one-character strings, so that the *)
(* label clean-up can be modelled character by character.  SQL NULL and    *)
(* Python None are the value Null, which is no text.                       *)
(***************************************************************************)
Null == << "<NULL>" >>
DQ == "\""
SQ == "'"
Rep(c, n) == [i \in 1..n |-> c]
Min(a, b) == IF a < b THEN a ELSE b

\* Python truthiness of an optional text: None and "" are falsy.
Falsy(v) == v = Null \/ v = << >>
\* Python `v or d`.
OrDefault(v, d) == IF Falsy(v) THEN d ELSE v
\* SQL COALESCE(a, b).
Coalesce(a, b) == IF a = Null THEN b ELSE a

Unknown == << "u", "n", "k", "n", "o", "w", "n" >>
Unnamed == << "u", "n", "n", "a", "m", "e", "d" >>

\* str.replace(ch, ''): every occurrence of the character is dropped.
Remove(s, ch) == SelectSeq(s, LAMBDA c : c # ch)
\* s[:n]
Prefix(s, n) == SubSeq(s, 1, Min(n, Len(s)))
\* Mutant of SafeName: the single-quote replace is forgotten.
SafeNameOnlyDouble(name, n) == Prefix(Remove(name, DQ), n)
\* name.replace('"', '').replace("'", "")[:n]
SafeName(name, n) == Prefix(Remove(Remove(name, DQ), SQ), n)

(***************************************************************************)
(* The relational store.  A data set gives the rows of the tables the      *)
(* queries read: message(message_id, timestamp, group_jid, sender_jid,     *)
(* media_url), "group"(group_jid, group_name, managed, notify_on_spam,     *)
(* community_keys), sender(jid, push_name) and the row counts of the       *)
(* optional tables.  Timestamps are in hours.                              *)
(***************************************************************************)
DigitChar == << "0", "1", "2", "3", "4", "5", "6", "7", "8", "9" >>
RECURSIVE Dec(_)
Dec(k) == IF k < 10 THEN << DigitChar[k + 1] >>
          ELSE Dec(k \div 10) \o << DigitChar[(k % 10) + 1] >>
GroupJid(k) == << "g" >> \o Dec(k)
SenderJid(k) == << "s" >> \o Dec(k)
QuotedJid == << "g", SQ, "9" >>
QuotedName == << "F", "a", DQ, "m" >>
ApostropheName == << "O", SQ, "N" >>
LongName == Rep("x", 30) \o << DQ >> \o Rep("y", 30) \o << SQ, "z" >>

\* The clock (hours) when the model starts: the first hour of a day.
StartClock == 2 * HoursPerDay

Msg(id, ts, g, s, media) ==
    [message_id |-> id, timestamp |-> ts, group_jid |-> g, sender_jid |-> s,
     media_url |-> media]
Grp(jid, name, managed, spam, community) ==
    [group_jid |-> jid, group_name |-> name, managed |-> managed,
     notify_on_spam |-> spam, community_keys |-> community]
Snd(jid, name) == [jid |-> jid, push_name |-> name]

DataIds == {"A", "B"}

\* Data set B: sender k wrote k messages, so that one sender more than the
\* ranking's limit exists and the first falls out of the top 10.
ChurnMessages ==
    UNION { { Msg(<<k, j>>, StartClock + 2 - (5 * j),
                  IF j % 2 = 0 THEN GroupJid(3) ELSE Null,
                  SenderJid(k), j = 1) : j \in 1..k } :
            k \in 1..(SenderLimit + 1) }

SmallTables ==
         [message |->
            { Msg(<<1>>, StartClock - 40, GroupJid(1), SenderJid(1), TRUE),
              Msg(<<2>>, StartClock - 20, GroupJid(1), SenderJid(2), FALSE),
              Msg(<<3>>, StartClock - 1, Null, SenderJid(1), FALSE),
              Msg(<<4>>, StartClock, GroupJid(2), SenderJid(1), TRUE),
              Msg(<<5>>, StartClock + 1, Null, Null, FALSE) },
          group |->
            { Grp(GroupJid(1), QuotedName, TRUE, FALSE, FALSE),
              Grp(GroupJid(2), Null, FALSE, TRUE, TRUE) },
          sender |->
            { Snd(SenderJid(1), ApostropheName), Snd(SenderJid(2), Null) },
          reaction |-> 2, optout |-> 1, kbtopic |-> 3]
ChurnTables ==
         [message |-> ChurnMessages,
          group |->
            { Grp(GroupJid(2), Null, TRUE, TRUE, FALSE),
              Grp(GroupJid(3), LongName, TRUE, FALSE, TRUE),
              Grp(QuotedJid, << >>, FALSE, FALSE, FALSE) },
          sender |->
            { Snd(SenderJid(k), IF k = SenderLimit THEN LongName ELSE Null) :
              k \in 1..(SenderLimit + 1) },
          reaction |-> 5, optout |-> 0, kbtopic |-> 1]
Tables(d) == IF d = "A" THEN SmallTables ELSE ChurnTables

(***************************************************************************)
(* The queries of collect_database_metrics, computed on a data set.        *)
(***************************************************************************)
\* now.replace(hour=0, minute=0, second=0, microsecond=0)
TodayStart(now) == now - (now % HoursPerDay)
\* Mutant of Last24h: timedelta(seconds=24), less than an hour.
Last24hSeconds(now) == now
\* now - timedelta(hours=24)
Last24h(now) == now - HoursPerDay
\* now - timedelta(hours=1)
LastHour(now) == now - LastHourSpan

\* The scalar queries, in the order the code issues them.
ScalarQueries ==
    << "messages_total", "messages_today", "messages_last_24h",
       "messages_last_hour", "messages_direct", "messages_group",
       "messages_with_media", "groups_total", "groups_managed",
       "groups_spam_notify", "groups_community", "senders_total",
       "senders_active_24h" >>

\* SELECT COUNT(...) of each scalar query; T is the data set, now the pass's
\* datetime.now().
ScalarResult(q, T, now) ==
    CASE q = "messages_total" -> Cardinality(T.message)
      [] q = "messages_today" ->
            Cardinality({m \in T.message : m.timestamp >= TodayStart(now)})
      [] q = "messages_last_24h" ->
            Cardinality({m \in T.message : m.timestamp >= Last24h(now)})
      [] q = "messages_last_hour" ->
            Cardinality({m \in T.message : m.timestamp >= LastHour(now)})
      [] q = "messages_direct" ->
            Cardinality({m \in T.message : m.group_jid = Null})
      [] q = "messages_group" ->
            Cardinality({m \in T.message : m.group_jid # Null})
      [] q = "messages_with_media" ->
            Cardinality({m \in T.message : m.media_url})
      [] q = "groups_total" -> Cardinality(T.group)
      [] q = "groups_managed" -> Cardinality({g \in T.group : g.managed})
      [] q = "groups_spam_notify" ->
            Cardinality({g \in T.group : g.notify_on_spam})
      [] q = "groups_community" ->
            Cardinality({g \in T.group : g.community_keys})
      [] q = "senders_total" -> Cardinality(T.sender)
      [] q = "senders_active_24h" ->
            Cardinality({m.sender_jid : m \in
                           {x \in T.message : x.timestamp >= Last24h(now)}}
                        \ {Null})

\* The gauge each scalar query writes.
GaugeOf(q) ==
    CASE q = "messages_direct" -> "messages_direct_total"
      [] q = "messages_group" -> "messages_group_total"
      [] q = "groups_spam_notify" -> "groups_with_spam_notification"
      [] q = "groups_community" -> "groups_with_community"
      [] OTHER -> q

\* `result.scalar() or 0`: a count is never NULL, and 0 or 0 is 0.
OrZero(n) == IF n = 0 THEN 0 ELSE n

\* ORDER BY msg_count DESC: rows of equal count come in the store's own
\* order, which is the same for the same data.
RECURSIVE OrderDesc(_)
OrderDesc(rows) ==
    IF rows = {} THEN << >>
    ELSE LET top == CHOOSE r \in rows : \A o \in rows : o.c2 <= r.c2
         IN  << top >> \o OrderDesc(rows \ {top})
\* Mutant of Limit: no LIMIT clause.
LimitNone(rows, n) == rows
\* LIMIT n
Limit(rows, n) == SubSeq(rows, 1, Min(n, Len(rows)))

\* SELECT g.group_jid, g.group_name, COUNT(m.message_id) FROM "group" g
\* LEFT JOIN message m ON m.group_jid = g.group_jid GROUP BY ... LIMIT 50
PerGroupRows(T) ==
    Limit(OrderDesc({ [c0 |-> g.group_jid, c1 |-> g.group_name,
                       c2 |-> Cardinality({m \in T.message :
                                 g.group_jid # Null /\ m.group_jid = g.group_jid})] :
                      g \in T.group }),
          GroupLimit)

\* The push_name of the sender row the LEFT JOIN finds (NULL when none).
PushName(T, jid) ==
    IF \E s \in T.sender : jid # Null /\ s.jid = jid
    THEN (CHOOSE s \in T.sender : s.jid = jid).push_name
    ELSE Null

\* SELECT m.sender_jid, COALESCE(s.push_name, m.sender_jid), COUNT(*)
\* FROM message m LEFT JOIN sender s ON s.jid = m.sender_jid GROUP BY ... LIMIT 10
PerSenderRows(T) ==
    Limit(OrderDesc({ [c0 |-> j, c1 |-> Coalesce(PushName(T, j), j),
                       c2 |-> Cardinality({m \in T.message : m.sender_jid = j})] :
                      j \in {m.sender_jid : m \in T.message} }),
          SenderLimit)

\* The optional tables and the tables whose rows are counted.
OptionalQueries == << "reactions_total", "optouts_total", "kb_topics_total" >>
TableOfOptional(q) ==
    CASE q = "reactions_total" -> "reaction"
      [] q = "optouts_total" -> "optout"
      [] q = "kb_topics_total" -> "kbtopic"
\* tables = ["message", "sender", '"group"', "reaction", "optout"]
RowTables == << "message", "sender", "\"group\"", "reaction", "optout" >>
\* table.replace('"', ''), on the names of RowTables
TableLabel(table) == IF table = "\"group\"" THEN "group" ELSE table
\* SELECT COUNT(*) FROM {table}
RowCount(T, table) ==
    CASE table = "message" -> Cardinality(T.message)
      [] table = "sender" -> Cardinality(T.sender)
      [] table = "\"group\"" -> Cardinality(T.group)
      [] table = "reaction" -> T.reaction
      [] table = "optout" -> T.optout
      [] table = "kbtopic" -> T.kbtopic

\* The statements of the batch in the order they are awaited: the
\* connectivity probe, the counts, the two rankings, the optional tables and
\* the per-table row counts.
Step(kind, q) == [kind |-> kind, q |-> q]
DbSteps ==
    << Step("connect", "connection_test") >>
    \o [i \in 1..7 |-> Step("scalar", ScalarQueries[i])]
    \o << Step("per_group", "messages_per_group") >>
    \o [i \in 1..6 |-> Step("scalar", ScalarQueries[7 + i])]
    \o << Step("per_sender", "messages_per_sender") >>
    \o [i \in 1..3 |-> Step("optional", OptionalQueries[i])]
    \o [i \in 1..5 |-> Step("rows", RowTables[i])]
NSteps == Len(DbSteps)
\* Positions of the database collector after its last statement.
DbExitPc == NSteps + 1
DbDonePc == NSteps + 2

(***************************************************************************)
(* The environment.  The store is a data set plus what currently fails:    *)
(* `failing` holds the query types (and, for the row counts, the tables)   *)
(* whose statement raises, `absent` the optional tables that do not exist. *)
(* The remote API is the answer it gives to GET /app/devices.              *)
(***************************************************************************)
StoreOf(data, failing, absent) ==
    [data |-> data, failing |-> failing, absent |-> absent]
Stores ==
    { StoreOf("A", {}, {}),
      StoreOf("A", {"connection_test"}, {}),
      StoreOf("A", {"sender"}, {"reaction", "optout", "kbtopic"}),
      StoreOf("B", {}, {}),
      StoreOf("B", {"messages_today"}, {}),
      StoreOf("B", {"messages_per_sender"}, {}) }

\* Whether the statement of a step raises against store s.
Fails(s, step) ==
    CASE step.kind = "optional" ->
            step.q \in s.failing \/ TableOfOptional(step.q) \in s.absent
      [] step.kind = "rows" -> step.q \in s.failing \/ step.q \in s.absent
      [] OTHER -> step.q \in s.failing

\* JSON values of a device entry's fields: a string, null, or no such key.
JStr(v) == [t |-> "str", v |-> v]
JNull == [t |-> "null", v |-> ""]
JAbsent == [t |-> "absent", v |-> ""]
\* dict.get(key, default)
Get(field, default) == IF field.t = "absent" THEN default ELSE field
\* str(value): None prints as "None".
PyStr(j) == IF j.t = "null" THEN "None" ELSE j.v
\* Mutant of Truthy: `is not None` instead of truthiness.
TruthyNotNone(j) == j.t = "str"
\* Python truthiness of a JSON string or None.
Truthy(j) == j.t = "str" /\ j.v # ""

Device(name, device) == [obj |-> TRUE, name |-> name, device |-> device]
NotAnObject == [obj |-> FALSE, name |-> JAbsent, device |-> JAbsent]
Answer(transport_ok, status, json_ok, results) ==
    [transport_ok |-> transport_ok, status |-> status, json_ok |-> json_ok,
     results |-> results]
Remotes ==
    { Answer(FALSE, 0, FALSE, << >>),
      Answer(TRUE, 500, FALSE, << >>),
      Answer(TRUE, HttpOk, TRUE, << >>),
      Answer(TRUE, HttpOk, TRUE, << Device(JStr("Phone"), JStr("dev1")) >>),
      Answer(TRUE, HttpOk, TRUE,
             << Device(JNull, JAbsent), Device(JStr("Tab"), JStr("dev2")) >>),
      Answer(TRUE, HttpOk, TRUE, << NotAnObject >>) }
\* The answers to GET /user/my/groups.
GroupAnswers ==
    { Answer(FALSE, 0, FALSE, << >>), Answer(TRUE, 500, FALSE, << >>),
      Answer(TRUE, HttpOk, FALSE, << >>), Answer(TRUE, HttpOk, TRUE, << >>) }

(***************************************************************************)
(* The metric registry (prometheus_client's default registry).             *)
(***************************************************************************)
WhatsappGauges == {"whatsapp_devices_total", "whatsapp_connection_status"}
\* The scalar gauges written from the store.
StoreGauges ==
    {GaugeOf(ScalarQueries[i]) : i \in 1..Len(ScalarQueries)}
    \cup {OptionalQueries[i] : i \in 1..Len(OptionalQueries)}
GaugeNames ==
    WhatsappGauges \cup StoreGauges
    \cup {"db_connection_status", "last_scrape_timestamp"}
ErrorTypes ==
    {"whatsapp_api_error", "whatsapp_connection_error", "database_error",
     "general_error"}
QueryTypes ==
    {DbSteps[i].q : i \in {j \in 1..NSteps : DbSteps[j].kind # "rows"}}
Endpoints == {"/app/devices", "/user/my/groups"}
\* A labeled gauge without children.
NoChildren == [k \in {} |-> 0]
NoInfo == [isset |-> FALSE, name |-> "", device |-> ""]

\* The registry at import time: gauges read 0, counters and histograms are
\* empty, no labeled child exists.
Registry0 ==
    [gauge |-> [g \in GaugeNames |-> 0],
     messages_per_group |-> NoChildren,
     messages_per_sender |-> NoChildren,
     db_table_rows |-> NoChildren,
     whatsapp_device_info |-> NoInfo,
     scrape_errors_total |-> [e \in ErrorTypes |-> 0],
     db_query_latency_seconds |-> [q \in QueryTypes |-> 0],
     whatsapp_api_latency_seconds |-> [e \in Endpoints |-> 0],
     scrape_duration_seconds |-> 0]

\* Mutant of GaugeSet: Gauge.inc(v) instead of Gauge.set(v).
GaugeInc(old, v) == old + v
\* Gauge.set(v): the slot's value is replaced.
GaugeSet(old, v) == v
SetGauge(r, name, v) == [r EXCEPT !.gauge[name] = GaugeSet(@, v)]
\* metric.labels(...).set(v): the child is created when it does not exist.
SetChild(m, labels, v) ==
    [k \in DOMAIN m \cup {labels} |->
        IF k = labels THEN GaugeSet(IF k \in DOMAIN m THEN m[k] ELSE 0, v)
        ELSE m[k]]
\* scrape_errors_total.labels(error_type=kind).inc()
IncError(r, kind) == [r EXCEPT !.scrape_errors_total[kind] = @ + 1]
\* db_query_latency_seconds.labels(query_type=q).observe(...)
ObserveQuery(r, q) == [r EXCEPT !.db_query_latency_seconds[q] = @ + 1]
\* whatsapp_api_latency_seconds.labels(endpoint=e).observe(...)
ObserveApi(r, e) == [r EXCEPT !.whatsapp_api_latency_seconds[e] = @ + 1]

(***************************************************************************)
(* collect_whatsapp_metrics.                                               *)
(***************************************************************************)
\* Mutant of ConnectedValue: any 200 answer counts as connected.
ConnectedValueAlways(n) == 1
\* 1 if len(results) > 0 else 0
ConnectedValue(n) == IF n > 0 THEN 1 ELSE 0

\* Mutant of DevicesException: the failure resets the device count and leaves
\* the connectivity gauge.
DevicesExceptionClearsTotal(r) ==
    IncError(SetGauge(r, "whatsapp_devices_total", 0), "whatsapp_connection_error")
\* Mutant of DevicesException: the failure is not counted.
DevicesExceptionUncounted(r) == SetGauge(r, "whatsapp_connection_status", 0)
\* The except branch of the devices step.
DevicesException(r) ==
    IncError(SetGauge(r, "whatsapp_connection_status", 0),
             "whatsapp_connection_error")

\* The devices step on answer a: the registry it leaves and the device_id
\* the coroutine holds afterwards (None unless the first entry gave one).
DevicesStep(r, a) ==
    IF ~a.transport_ok
    THEN [reg |-> DevicesException(r), device_id |-> JNull]
    ELSE LET r1 == ObserveApi(r, "/app/devices") IN
      IF a.status # HttpOk
      THEN [reg |-> IncError(SetGauge(r1, "whatsapp_connection_status", 0),
                             "whatsapp_api_error"),
            device_id |-> JNull]
      ELSE IF ~a.json_ok
      THEN [reg |-> DevicesException(r1), device_id |-> JNull]
      ELSE LET n == Len(a.results)
               r2 == SetGauge(SetGauge(r1, "whatsapp_devices_total", n),
                              "whatsapp_connection_status", ConnectedValue(n))
           IN IF n = 0
              THEN [reg |-> r2, device_id |-> JNull]
              ELSE IF ~a.results[1].obj
              THEN [reg |-> DevicesException(r2), device_id |-> JNull]
              ELSE LET device == a.results[1]
                       device_id == Get(device.device, JStr(""))
                   IN [reg |-> [r2 EXCEPT !.whatsapp_device_info =
                                  [isset |-> TRUE,
                                   name |-> PyStr(Get(device.name, JStr(""))),
                                   device |-> PyStr(device_id)]],
                       device_id |-> device_id]

\* Mutant of GroupsStep: a failed groups call is treated like a failed
\* devices call.
GroupsStepMarksDown(r, a) ==
    IF a.transport_ok /\ a.status = HttpOk /\ a.json_ok
    THEN ObserveApi(r, "/user/my/groups")
    ELSE DevicesException(r)
\* The groups step on answer a: the latency of any answer received is
\* observed; the body is only logged.
GroupsStep(r, a) ==
    IF a.transport_ok THEN ObserveApi(r, "/user/my/groups") ELSE r

(***************************************************************************)
(* collect_database_metrics: what each statement's result does to the      *)
(* registry.                                                               *)
(***************************************************************************)
\* The probe succeeded: its latency is observed and the gauge set to 1.
ConnectStep(r) ==
    SetGauge(ObserveQuery(r, "connection_test"), "db_connection_status", 1)

\* A count succeeded: the gauge is set and the latency observed.
ScalarStep(r, q, T, now) ==
    ObserveQuery(SetGauge(r, GaugeOf(q), OrZero(ScalarResult(q, T, now))), q)

\* The label values of a group row.
GroupLabels(row) ==
    << OrDefault(row.c0, Unknown),
       SafeName(OrDefault(row.c1, Unnamed), GroupNameMaxLen) >>
\* The label values of a sender row.
SenderLabels(row) ==
    << OrDefault(row.c0, Unknown),
       SafeName(OrDefault(row.c1, Unknown), SenderNameMaxLen) >>

\* for row in result: messages_per_group.labels(...).set(msg_count)
RECURSIVE WriteGroupRows(_, _)
WriteGroupRows(m, rows) ==
    IF rows = << >> THEN m
    ELSE WriteGroupRows(SetChild(m, GroupLabels(Head(rows)), OrZero(Head(rows).c2)),
                        Tail(rows))
\* for row in result: messages_per_sender.labels(...).set(msg_count)
RECURSIVE WriteSenderRows(_, _)
WriteSenderRows(m, rows) ==
    IF rows = << >> THEN m
    ELSE WriteSenderRows(SetChild(m, SenderLabels(Head(rows)), OrZero(Head(rows).c2)),
                         Tail(rows))

\* The group ranking succeeded.
PerGroupStep(r, rows) ==
    ObserveQuery([r EXCEPT !.messages_per_group = WriteGroupRows(@, rows)],
                 "messages_per_group")
\* The sender ranking succeeded.
PerSenderStep(r, rows) ==
    ObserveQuery([r EXCEPT !.messages_per_sender = WriteSenderRows(@, rows)],
                 "messages_per_sender")

\* Mutant of BeforeAwait: messages_per_sender is not cleared.
BeforeAwaitNoClear(r, step) == r
\* The synchronous code between the previous statement's result and the
\* await of `step`: messages_per_sender._metrics.clear() precedes the await
\* of the sender ranking.
BeforeAwait(r, step) ==
    IF step.kind = "per_sender"
    THEN [r EXCEPT !.messages_per_sender = NoChildren]
    ELSE r

\* Mutant of OptionalStep: a failed count leaves the gauge as it was.
OptionalStepStale(r, q, failed, T) ==
    ObserveQuery(IF failed THEN r
                 ELSE SetGauge(r, q, OrZero(RowCount(T, TableOfOptional(q)))), q)
\* An optional-table count: 0 when the statement raised; the latency is
\* observed either way.
OptionalStep(r, q, failed, T) ==
    ObserveQuery(SetGauge(r, q, IF failed THEN 0
                                ELSE OrZero(RowCount(T, TableOfOptional(q)))),
                 q)

\* A row count of the capacity-planning loop: skipped when it raised.
RowsStep(r, table, failed, T) ==
    IF failed THEN r
    ELSE [r EXCEPT !.db_table_rows =
            SetChild(@, TableLabel(table), OrZero(RowCount(T, table)))]

\* Mutant of DbExceptHandler: the handler does not count the error.
DbExceptHandlerUncounted(r) == SetGauge(r, "db_connection_status", 0)
\* Mutant of DbExceptHandler: the handler also resets the message total.
DbExceptHandlerResets(r) ==
    IncError(SetGauge(SetGauge(r, "db_connection_status", 0), "messages_total", 0),
             "database_error")
\* except Exception: db_connection_status.set(0); the error is counted.
DbExceptHandler(r) ==
    IncError(SetGauge(r, "db_connection_status", 0), "database_error")

(***************************************************************************)
(* collect_all_metrics and the /metrics endpoint.                          *)
(***************************************************************************)
\* Mutant of GatherReturnExceptions: gather without return_exceptions.
GatherPropagates == FALSE
\* asyncio.gather(..., return_exceptions=True)
GatherReturnExceptions == TRUE
\* The await of gather returns: both coroutines finished, or, without
\* return_exceptions, one raised.
GatherDone(ps) ==
    \/ ps.wa_pc = "done" /\ ps.db_pc = DbDonePc
    \/ ~GatherReturnExceptions /\ ps.db_raised
\* Whether the await of gather raises.
GatherRaises(ps) == ~GatherReturnExceptions /\ ps.db_raised

\* The code after gather: the timestamp and the duration on the normal path,
\* the general error counter in the except branch.
AfterGather(r, raised, time) ==
    IF raised THEN IncError(r, "general_error")
    ELSE [SetGauge(r, "last_scrape_timestamp", time)
            EXCEPT !.scrape_duration_seconds = @ + 1]

\* Mutant of MetricsResponse: a degraded collection is answered like the
\* readiness endpoint answers an unreachable database.
MetricsResponseUnavailable(raised, r) ==
    [status |-> IF raised \/ r.gauge["db_connection_status"] = 0
                THEN 503 ELSE HttpOk,
     body |-> r]
\* metrics_endpoint: an exception of the collection is logged, and
\* generate_latest() renders the registry as it is then.
MetricsResponse(raised, r) == [status |-> HttpOk, body |-> r]

(***************************************************************************)
(* State.                                                                  *)
(***************************************************************************)
VARIABLES
    reg,      \* the metric registry
    pass,     \* the collection passes: one per GET /metrics request
    store,    \* the relational store
    remote,   \* the WhatsApp API's answer to GET /app/devices
    clock,    \* time.time() / datetime.now(), in hours
    changed   \* whether the environment changed since the last scrape

vars == << reg, pass, store, remote, clock, changed >>

Passes == 1..MaxPasses
NoResponse == [status |-> 0, body |-> Registry0]
NoRows == [ok |-> FALSE, labels |-> {}]
\* No answer received yet (no HTTP status is negative).
NoAnswer == Answer(FALSE, -1, FALSE, << >>)

\* A pass that has not been requested.  Besides the coroutines' positions
\* and locals a pass records, for the properties, what it saw: the two
\* WhatsApp gauges right after the devices step (after_devices), the devices
\* answer, the probe's outcome, the label tuples its ranking queries
\* returned, the statement that raised, the statements it issued and the
\* environment the request found.
IdlePass ==
    [st |-> "idle", wa_pc |-> "idle", db_pc |-> 0,
     device_id |-> JNull, now |-> 0, start |-> 0,
     db_exc |-> FALSE, db_raised |-> FALSE,
     response |-> NoResponse,
     after_devices |-> [status |-> 0, devices |-> 0],
     env |-> << >>,
     answer |-> NoAnswer,
     probe |-> "none", group_rows |-> NoRows, sender_rows |-> NoRows,
     failed_at |-> 0, issued |-> {}]

Init ==
    /\ reg = Registry0
    /\ pass = [p \in Passes |-> IdlePass]
    /\ store \in Stores
    /\ remote \in Remotes
    /\ clock = StartClock
    /\ changed = FALSE

NoneRunning == \A p \in Passes : pass[p].st # "running"
Started == Cardinality({p \in Passes : pass[p].st # "idle"})

\* GET /metrics arrives from a scraper that waits for each response before
\* it scrapes again: collect_all_metrics starts both coroutines, which run to
\* their first await.
MetricsRequest(p) ==
    /\ pass[p].st = "idle"
    /\ \A q \in Passes : q < p => pass[q].st = "done"
    /\ pass' = [pass EXCEPT ![p] =
                  [@ EXCEPT !.st = "running", !.wa_pc = "devices", !.db_pc = 1,
                            !.start = clock, !.issued = {1},
                            !.env = << store, remote >>]]
    /\ reg' = BeforeAwait(reg, DbSteps[1])
    /\ changed' = FALSE
    /\ UNCHANGED << store, remote, clock >>

\* The answer to GET /app/devices arrives.
WaDevices(p) ==
    /\ pass[p].wa_pc = "devices"
    /\ LET res == DevicesStep(reg, remote) IN
        /\ reg' = res.reg
        /\ pass' = [pass EXCEPT ![p] =
                      [@ EXCEPT !.wa_pc = IF Truthy(res.device_id)
                                          THEN "groups" ELSE "done",
                                !.device_id = res.device_id,
                                !.answer = remote,
                                !.after_devices =
                                  [status |-> res.reg.gauge["whatsapp_connection_status"],
                                   devices |-> res.reg.gauge["whatsapp_devices_total"]]]]
    /\ UNCHANGED << store, remote, clock, changed >>

\* The answer to GET /user/my/groups arrives (or the call fails).
WaGroups(p) ==
    /\ pass[p].wa_pc = "groups"
    /\ \E a \in GroupAnswers : reg' = GroupsStep(reg, a)
    /\ pass' = [pass EXCEPT ![p].wa_pc = "done"]
    /\ UNCHANGED << store, remote, clock, changed >>

\* The position after statement i completed, and the pass record there.
Advance(ps, i) ==
    IF i < NSteps
    THEN [ps EXCEPT !.db_pc = i + 1, !.issued = @ \cup {i + 1}]
    ELSE [ps EXCEPT !.db_pc = DbExitPc]
\* Statement i raised: the exception leaves the session's with-block.
Raise(ps, i) == [ps EXCEPT !.db_pc = DbExitPc, !.db_exc = TRUE, !.failed_at = i]
\* The registry once the code up to the next await has run.
UpToAwait(r, i) == IF i < NSteps THEN BeforeAwait(r, DbSteps[i + 1]) ELSE r

AtStep(p, kind) ==
    /\ pass[p].db_pc \in 1..NSteps
    /\ DbSteps[pass[p].db_pc].kind = kind

\* SELECT 1 returns or raises.
DbConnect(p) ==
    /\ AtStep(p, "connect")
    /\ LET i == pass[p].db_pc IN
        IF Fails(store, DbSteps[i])
        THEN /\ reg' = reg
             /\ pass' = [pass EXCEPT ![p] = [Raise(@, i) EXCEPT !.probe = "failed"]]
        ELSE /\ reg' = UpToAwait(ConnectStep(reg), i)
             /\ pass' = [pass EXCEPT ![p] =
                           [Advance(@, i) EXCEPT !.probe = "ok", !.now = clock]]
    /\ UNCHANGED << store, remote, clock, changed >>

\* One of the COUNT queries returns or raises.
DbScalar(p) ==
    /\ AtStep(p, "scalar")
    /\ LET i == pass[p].db_pc IN
        IF Fails(store, DbSteps[i])
        THEN /\ reg' = reg
             /\ pass' = [pass EXCEPT ![p] = Raise(@, i)]
        ELSE /\ reg' = UpToAwait(ScalarStep(reg, DbSteps[i].q, Tables(store.data),
                                            pass[p].now), i)
             /\ pass' = [pass EXCEPT ![p] = Advance(@, i)]
    /\ UNCHANGED << store, remote, clock, changed >>

\* The labels a pass's ranking returned, as the collector renders them.
Returned(labels) == [ok |-> TRUE, labels |-> labels]

\* The top-50 group ranking returns or raises.
DbPerGroup(p) ==
    /\ AtStep(p, "per_group")
    /\ LET i == pass[p].db_pc
           rows == PerGroupRows(Tables(store.data))
       IN IF Fails(store, DbSteps[i])
          THEN /\ reg' = reg
               /\ pass' = [pass EXCEPT ![p] = Raise(@, i)]
          ELSE /\ reg' = UpToAwait(PerGroupStep(reg, rows), i)
               /\ pass' = [pass EXCEPT ![p] =
                             [Advance(@, i) EXCEPT !.group_rows =
                                Returned({GroupLabels(rows[k]) : k \in 1..Len(rows)})]]
    /\ UNCHANGED << store, remote, clock, changed >>

\* The top-10 sender ranking returns or raises.
DbPerSender(p) ==
    /\ AtStep(p, "per_sender")
    /\ LET i == pass[p].db_pc
           rows == PerSenderRows(Tables(store.data))
       IN IF Fails(store, DbSteps[i])
          THEN /\ reg' = reg
               /\ pass' = [pass EXCEPT ![p] = Raise(@, i)]
          ELSE /\ reg' = UpToAwait(PerSenderStep(reg, rows), i)
               /\ pass' = [pass EXCEPT ![p] =
                             [Advance(@, i) EXCEPT !.sender_rows =
                                Returned({SenderLabels(rows[k]) : k \in 1..Len(rows)})]]
    /\ UNCHANGED << store, remote, clock, changed >>

\* The count of an optional table returns or raises; its own try/except
\* keeps the exception inside the statement.
DbOptional(p) ==
    /\ AtStep(p, "optional")
    /\ LET i == pass[p].db_pc IN
        /\ reg' = UpToAwait(OptionalStep(reg, DbSteps[i].q, Fails(store, DbSteps[i]),
                                         Tables(store.data)), i)
        /\ pass' = [pass EXCEPT ![p] = Advance(@, i)]
    /\ UNCHANGED << store, remote, clock, changed >>

\* One row count of the loop over the tables returns or raises.
DbRows(p) ==
    /\ AtStep(p, "rows")
    /\ LET i == pass[p].db_pc IN
        /\ reg' = UpToAwait(RowsStep(reg, DbSteps[i].q, Fails(store, DbSteps[i]),
                                     Tables(store.data)), i)
        /\ pass' = [pass EXCEPT ![p] = Advance(@, i)]
    /\ UNCHANGED << store, remote, clock, changed >>

\* The session's with-block has been left: the coroutine returns, or the
\* except branch handles the exception and re-raises it.
DbExit(p) ==
    /\ pass[p].db_pc = DbExitPc
    /\ reg' = IF pass[p].db_exc THEN DbExceptHandler(reg) ELSE reg
    /\ pass' = [pass EXCEPT ![p] =
                  [@ EXCEPT !.db_pc = DbDonePc, !.db_raised = pass[p].db_exc]]
    /\ UNCHANGED << store, remote, clock, changed >>

\* gather returns to collect_all_metrics, which returns to metrics_endpoint,
\* which renders the registry: no await lies between.
MetricsRespond(p) ==
    /\ pass[p].st = "running"
    /\ GatherDone(pass[p])
    /\ LET raised == GatherRaises(pass[p])
           r == AfterGather(reg, raised, clock)
       IN /\ reg' = r
          /\ pass' = [pass EXCEPT ![p] =
                        [@ EXCEPT !.st = "done",
                                  !.response = MetricsResponse(raised, r)]]
    /\ UNCHANGED << store, remote, clock, changed >>

(***************************************************************************)
(* The environment.  Between two scrapes one thing happens at most: the    *)
(* store's content or availability changes, the remote API answers         *)
(* differently, or an hour passes.                                         *)
(***************************************************************************)
StoreChange ==
    /\ NoneRunning
    /\ Started \in 1..(MaxPasses - 1)
    /\ ~changed
    /\ \E s \in Stores \ {store} : store' = s
    /\ changed' = TRUE
    /\ UNCHANGED << reg, pass, remote, clock >>

RemoteChange ==
    /\ NoneRunning
    /\ Started \in 1..(MaxPasses - 1)
    /\ ~changed
    /\ \E a \in Remotes \ {remote} : remote' = a
    /\ changed' = TRUE
    /\ UNCHANGED << reg, pass, store, clock >>

Tick ==
    /\ NoneRunning
    /\ Started \in 1..(MaxPasses - 1)
    /\ ~changed
    /\ clock' = clock + 1
    /\ changed' = TRUE
    /\ UNCHANGED << reg, pass, store, remote >>

Next ==
    \/ \E p \in Passes :
          \/ MetricsRequest(p)
          \/ WaDevices(p)
          \/ WaGroups(p)
          \/ DbConnect(p)
          \/ DbScalar(p)
          \/ DbPerGroup(p)
          \/ DbPerSender(p)
          \/ DbOptional(p)
          \/ DbRows(p)
          \/ DbExit(p)
          \/ MetricsRespond(p)
    \/ StoreChange
    \/ RemoteChange
    \/ Tick

Spec == Init /\ [][Next]_vars

(***************************************************************************)
(* Properties.                                                             *)
(***************************************************************************)
\* The pass requested last.
Latest(p) == pass[p].st # "idle" /\ \A q \in Passes : q > p => pass[q].st = "idle"
\* The registry when pass p was requested: scrapes do not overlap, so it is
\* the registry the previous response rendered.
Before(p) == IF p = 1 THEN Registry0 ELSE pass[p - 1].response.body
\* Everything the store query batch writes except db_connection_status.
StoreDerived(r) ==
    << [g \in StoreGauges |-> r.gauge[g]], r.messages_per_group,
       r.messages_per_sender, r.db_table_rows >>
\* Every gauge of the registry, scalar and labeled.
AllGauges(r) ==
    << r.gauge, r.messages_per_group, r.messages_per_sender, r.db_table_rows >>
\* The gauges whose value depends on when the pass ran.
TimeGauges ==
    {"last_scrape_timestamp", "messages_today", "messages_last_24h",
     "messages_last_hour", "senders_active_24h"}
TimelessGauges(r) ==
    << [g \in GaugeNames \ TimeGauges |-> r.gauge[g]], r.messages_per_group,
       r.messages_per_sender, r.db_table_rows >>
\* A label value without quote characters and of at most n characters.
CleanLabel(v, n) == Len(v) <= n /\ \A i \in 1..Len(v) : v[i] \notin {DQ, SQ}

\* C1: in a pass whose connectivity probe fails, no store-derived gauge is
\* touched, and once collect_database_metrics has finished
\* db_connection_status is 0.
C1_ProbeFailureFrame ==
    \A p \in Passes :
        (Latest(p) /\ pass[p].probe = "failed") =>
            /\ StoreDerived(reg) = StoreDerived(Before(p))
            /\ pass[p].db_pc = DbDonePc => reg.gauge["db_connection_status"] = 0
\* A second pass whose probe failed has finished over a registry the first
\* pass had filled.
C1_Witness ==
    /\ MaxPasses >= 2
    /\ pass[2].probe = "failed" /\ pass[2].db_pc = DbDonePc
    /\ reg.gauge["messages_total"] > 0
    /\ reg.messages_per_sender # NoChildren

\* C2 (as claimed): after a successful probe every statement of the battery is
\* issued, whichever of them fails.
C2_Claim ==
    \A p \in Passes :
        (pass[p].probe = "ok" /\ pass[p].db_pc = DbDonePc) =>
            pass[p].issued = 1..NSteps

\* C3 (as claimed): when a pass whose ranking queries succeeded completes, each
\* ranking gauge holds exactly the label tuples that pass's query returned.
C3_Claim ==
    \A p \in Passes :
        (Latest(p) /\ pass[p].st = "done") =>
            /\ pass[p].group_rows.ok =>
                 DOMAIN reg.messages_per_group = pass[p].group_rows.labels
            /\ pass[p].sender_rows.ok =>
                 DOMAIN reg.messages_per_sender = pass[p].sender_rows.labels

\* The jid columns the store can return.
StoreJids ==
    UNION { {g.group_jid : g \in Tables(d).group}
            \cup {m.sender_jid : m \in Tables(d).message} : d \in DataIds }
C5_GroupsFailureFrame ==
    [][\A p \in Passes :
          (pass[p].wa_pc = "groups" /\ pass'[p].wa_pc = "done") =>
              /\ reg'.gauge["whatsapp_connection_status"] = pass[p].after_devices.status
              /\ reg'.gauge["whatsapp_devices_total"] = pass[p].after_devices.devices
              /\ reg'.scrape_errors_total = reg.scrape_errors_total]_vars
\* A groups call was made and failed at the transport (no latency was ever
\* observed for it) after the devices step had reported a connected device.
C5_Witness ==
    \E p \in Passes :
        /\ pass[p].wa_pc = "done" /\ Truthy(pass[p].device_id)
        /\ reg.whatsapp_api_latency_seconds["/user/my/groups"] = 0
        /\ reg.gauge["whatsapp_connection_status"] = 1
        /\ reg.gauge["whatsapp_devices_total"] = 1

\* C6: a pass responds only when both collectors have finished; an exception
\* of the database collector leaves the WhatsApp collector able to go on; and
\* every finished pass, failed or not, has set last_scrape_timestamp and
\* added exactly one scrape_duration_seconds observation.
C6_BothComplete ==
    /\ \A p \in Passes :
          /\ pass[p].st = "done" =>
                /\ pass[p].wa_pc = "done" /\ pass[p].db_pc = DbDonePc
                /\ pass[p].response.body.gauge["last_scrape_timestamp"] >= pass[p].start
                /\ pass[p].response.body.scrape_duration_seconds = p
          /\ (pass[p].st = "running" /\ pass[p].db_raised /\ pass[p].wa_pc # "done")
                => ENABLED (WaDevices(p) \/ WaGroups(p))
          /\ (pass[p].st = "running" /\ pass[p].wa_pc = "done"
                /\ pass[p].db_pc = DbDonePc) => ENABLED MetricsRespond(p)
    /\ reg.scrape_duration_seconds = Cardinality({p \in Passes : pass[p].st = "done"})
\* A pass has finished whose database collector raised while the WhatsApp
\* collector went through both of its calls.
C6_Witness ==
    \E p \in Passes :
        /\ pass[p].st = "done" /\ pass[p].db_raised
        /\ Truthy(pass[p].device_id)
        /\ reg.scrape_duration_seconds = p

\* C7 (as claimed): a pass in which a collector raised increments
\* scrape_errors_total{general_error}.
C7_Claim ==
    \A p \in Passes :
        (pass[p].st = "done" /\ pass[p].db_raised) =>
            pass[p].response.body.scrape_errors_total["general_error"]
              > Before(p).scrape_errors_total["general_error"]

\* C8: every request is answered with status 200 and the registry as it is
\* when the response is rendered, after one run of both collectors, whatever
\* failed during the pass; no other status is ever returned.
C8_AlwaysOk ==
    \A p \in Passes :
        /\ pass[p].st = "done" =>
              /\ pass[p].response.status = HttpOk
              /\ Latest(p) => pass[p].response.body = reg
              /\ pass[p].answer # NoAnswer /\ pass[p].probe # "none"
              /\ reg.db_query_latency_seconds["connection_test"]
                   + reg.scrape_errors_total["database_error"] >= p
        /\ pass[p].st # "done" => pass[p].response = NoResponse
\* A pass in which both the remote API and the database failed was answered.
C8_Witness ==
    \E p \in Passes :
        /\ pass[p].st = "done" /\ pass[p].response.status = HttpOk
        /\ pass[p].db_raised /\ ~pass[p].answer.transport_ok
        /\ pass[p].response.body.gauge["db_connection_status"] = 0

\* C9 (as claimed): two consecutive passes over an unchanged store and remote
\* service leave every gauge, scalar and labeled, with identical values.
C9_Claim ==
    \A p \in Passes :
        (p >= 2 /\ pass[p].st = "done" /\ pass[p].env = pass[p - 1].env) =>
            AllGauges(pass[p].response.body) = AllGauges(pass[p - 1].response.body)
\* C9 (amended): they leave every gauge identical except the gauges that
\* depend on the time of the pass (last_scrape_timestamp and the gauges of the
\* `now`-anchored windows), and those too when both passes read the same clock.
C9_Idempotent ==
    \A p \in Passes :
        (p >= 2 /\ pass[p].st = "done" /\ pass[p].env = pass[p - 1].env) =>
            /\ TimelessGauges(pass[p].response.body)
                 = TimelessGauges(pass[p - 1].response.body)
            /\ pass[p].start = pass[p - 1].start =>
                 AllGauges(pass[p].response.body)
                   = AllGauges(pass[p - 1].response.body)
\* A second pass over the same, populated environment has finished an hour
\* after the first.
C9_Witness ==
    /\ MaxPasses >= 2
    /\ pass[2].st = "done" /\ pass[2].env = pass[1].env
    /\ pass[2].start # pass[1].start
    /\ reg.gauge["messages_total"] > 0 /\ reg.messages_per_sender # NoChildren
    /\ reg.gauge["whatsapp_connection_status"] = 1

\* The text of a device entry's field as the info record shows it.
FieldText(j) ==
    CASE j.t = "str" -> j.v
      [] j.t = "null" -> "None"
      [] j.t = "absent" -> ""
\* Status 200 with a JSON body whose results are a list of device objects.
DeviceList(a) ==
    /\ a.transport_ok /\ a.status = HttpOk /\ a.json_ok
    /\ a.results # << >> => a.results[1].obj
\* C10: after the devices step got status 200 with a list R of device
\* entries, whatsapp_devices_total is len(R), whatsapp_connection_status is 1
\* if R is non-empty and 0 otherwise, and the info record holds the first
\* entry's name and device identifier, or its prior value if R is empty.
C10_DevicesOk ==
    \A p \in Passes :
        (Latest(p) /\ pass[p].wa_pc \in {"groups", "done"}
           /\ DeviceList(pass[p].answer)) =>
            LET R == pass[p].answer.results IN
            /\ reg.gauge["whatsapp_devices_total"] = Len(R)
            /\ reg.gauge["whatsapp_connection_status"] = (IF R # << >> THEN 1 ELSE 0)
            /\ reg.whatsapp_device_info =
                 IF R = << >> THEN Before(p).whatsapp_device_info
                 ELSE [isset |-> TRUE, name |-> FieldText(R[1].name),
                       device |-> FieldText(R[1].device)]
\* A second pass got an empty list after the first had recorded a device.
C10_Witness ==
    /\ MaxPasses >= 2
    /\ pass[2].wa_pc = "done" /\ DeviceList(pass[2].answer)
    /\ pass[2].answer.results = << >>
    /\ reg.whatsapp_device_info.isset
    /\ reg.gauge["whatsapp_devices_total"] = 0
    /\ reg.gauge["whatsapp_connection_status"] = 0

\* The devices call met a transport failure or got a non-2xx status.
DevicesCallFailed(a) == ~a.transport_ok \/ a.status \notin 200..299
\* The error kind the devices step counts for such a failure.
DevicesErrorKind(a) ==
    IF a.transport_ok THEN "whatsapp_api_error" ELSE "whatsapp_connection_error"
\* C11: when the devices call fails (transport failure or non-2xx status) the
\* devices step sets whatsapp_connection_status to 0, increments exactly one
\* error counter by 1 (whatsapp_api_error for a status, whatsapp_connection_error
\* for a transport failure), and the collector finishes without raising while
\* the pass goes on.
C11_DevicesFailure ==
    [][\A p \in Passes :
          (pass[p].wa_pc = "devices" /\ pass'[p].wa_pc # "devices"
             /\ DevicesCallFailed(remote)) =>
              /\ reg'.gauge["whatsapp_connection_status"] = 0
              /\ reg'.scrape_errors_total =
                   [reg.scrape_errors_total EXCEPT ![DevicesErrorKind(remote)] = @ + 1]
              /\ pass'[p].wa_pc = "done"
              /\ pass'[p].st = "running"
              /\ pass'[p].db_pc = pass[p].db_pc
              /\ pass'[p].db_raised = pass[p].db_raised]_vars
\* The devices call of a second pass got status 500 after the first pass had
\* reported a connected device; the failure was counted once and the pass
\* went on to its response.
C11_Witness ==
    /\ MaxPasses >= 2
    /\ pass[2].st = "done" /\ pass[2].answer.status = 500
    /\ pass[1].after_devices.status = 1
    /\ reg.gauge["whatsapp_connection_status"] = 0
    /\ reg.scrape_errors_total["whatsapp_api_error"] = 1
    /\ reg.scrape_errors_total["whatsapp_connection_error"] = 0

\* Some step of pass p can be taken.
CanStep(p) ==
    ENABLED (\/ WaDevices(p) \/ WaGroups(p) \/ DbConnect(p) \/ DbScalar(p)
             \/ DbPerGroup(p) \/ DbPerSender(p) \/ DbOptional(p) \/ DbRows(p)
             \/ DbExit(p) \/ MetricsRespond(p))
\* C12: in a pass whose connectivity query raises, the batch issues no further
\* statement, database_error is incremented by exactly 1 during the pass, and
\* the pass is never stuck before its response, which carries one more
\* scrape-duration observation than the registry had before the pass.
C12_ProbeThrows ==
    \A p \in Passes :
        (Latest(p) /\ pass[p].probe = "failed") =>
            /\ pass[p].issued = {1}
            /\ reg.scrape_errors_total["database_error"] =
                 Before(p).scrape_errors_total["database_error"]
                   + (IF pass[p].db_pc = DbDonePc THEN 1 ELSE 0)
            /\ pass[p].st = "running" => CanStep(p)
            /\ pass[p].st = "done" =>
                 pass[p].response.body.scrape_duration_seconds =
                   Before(p).scrape_duration_seconds + 1
\* The first pass met a failing probe and was answered: one database error,
\* one duration observation, one statement issued.
C12_Witness ==
    /\ pass[1].st = "done" /\ pass[1].probe = "failed"
    /\ pass[1].issued = {1}
    /\ pass[1].response.body.scrape_errors_total["database_error"] = 1
    /\ pass[1].response.body.scrape_duration_seconds = 1

\* The positions of the optional-table statements in the batch.
OptionalPcs == {i \in 1..NSteps : DbSteps[i].kind = "optional"}
\* C13: when the count of an optional table fails because the table does not
\* exist, its gauge is set to 0, no error counter is incremented, the batch
\* goes on to the next statement, and it ends having issued every statement
\* without raising.
C13_OptionalAbsent ==
    [][\A p \in Passes :
          /\ (/\ pass[p].db_pc \in OptionalPcs
              /\ TableOfOptional(DbSteps[pass[p].db_pc].q) \in store.absent
              /\ pass'[p].db_pc # pass[p].db_pc) =>
                /\ reg'.gauge[DbSteps[pass[p].db_pc].q] = 0
                /\ reg'.scrape_errors_total = reg.scrape_errors_total
                /\ pass'[p].db_pc = pass[p].db_pc + 1
                /\ pass'[p].issued = pass[p].issued \cup {pass[p].db_pc + 1}
                /\ ~pass'[p].db_exc
          /\ (/\ pass'[p].db_pc = DbDonePc
              /\ \E i \in OptionalPcs \cap pass'[p].issued :
                    TableOfOptional(DbSteps[i].q) \in store.absent) =>
                /\ pass'[p].issued = 1..NSteps
                /\ ~pass'[p].db_raised]_vars
\* A second pass met a store without the reaction table after the first pass
\* had counted reactions: the gauge reads 0, no database error was counted and
\* the batch issued all its statements.
C13_Witness ==
    /\ MaxPasses >= 2
    /\ pass[2].db_pc = DbDonePc /\ ~pass[2].db_raised
    /\ "reaction" \in store.absent
    /\ pass[1].response.body.gauge["reactions_total"] > 0
    /\ reg.gauge["reactions_total"] = 0
    /\ reg.scrape_errors_total["database_error"] = 0
    /\ pass[2].issued = 1..NSteps

\* Statement i of pass p was issued and has returned or raised.
Completed(p, i) ==
    i \in pass[p].issued /\ (i < pass[p].db_pc \/ pass[p].db_pc >= DbExitPc)
\* C14 (as claimed): every statement the batch issued, whether it succeeded or
\* failed, has added one observation to db_query_latency_seconds under a
\* category of its own.
C14_Claim ==
    \A p \in Passes :
        Latest(p) =>
            \A i \in 1..NSteps :
                Completed(p, i) =>
                    /\ DbSteps[i].q \in DOMAIN reg.db_query_latency_seconds
                    /\ reg.db_query_latency_seconds[DbSteps[i].q] =
                         Before(p).db_query_latency_seconds[DbSteps[i].q] + 1

\* The devices answer is a 200 with a device list whose first entry carries a
\* non-empty device identifier.
HasIdentifier(a) ==
    /\ DeviceList(a) /\ a.results # << >>
    /\ a.results[1].device.t = "str" /\ a.results[1].device.v # ""
\* C15: within one run of the WhatsApp collector the groups call is issued at
\* most once, by the devices step when it finishes and only when the first
\* entry of its answer gave a non-empty device identifier; after a failed
\* devices call, an empty list or a first entry without identifier the
\* collector ends without a groups call.
C15_GroupsAfterDevices ==
    [][\A p \in Passes :
          /\ (pass'[p].wa_pc = "groups" /\ pass[p].wa_pc # "groups") =>
                /\ pass[p].wa_pc = "devices"
                /\ HasIdentifier(remote)
                /\ pass'[p].device_id = remote.results[1].device
          /\ (pass[p].wa_pc = "devices" /\ pass'[p].wa_pc # "devices"
                /\ ~HasIdentifier(remote)) => pass'[p].wa_pc = "done"
          /\ pass[p].wa_pc = "groups" => pass'[p].wa_pc \in {"groups", "done"}
          /\ (pass[p].wa_pc = "done" /\ pass[p].st = "running") =>
                pass'[p].wa_pc = "done"
          /\ (pass[p].wa_pc = "groups" => pass'[p].wa_pc = "groups") =>
                reg'.whatsapp_api_latency_seconds["/user/my/groups"]
                  <= reg.whatsapp_api_latency_seconds["/user/my/groups"]
                       + Cardinality({q \in Passes \ {p} :
                            pass[q].wa_pc = "groups" /\ pass'[q].wa_pc = "done"})]_vars
\* The first pass captured an identifier and its groups call was answered
\* once; the second pass got a first entry without identifier and ended
\* without a groups call.
C15_Witness ==
    /\ MaxPasses >= 2
    /\ pass[1].wa_pc = "done" /\ HasIdentifier(pass[1].answer)
    /\ pass[2].wa_pc = "done" /\ DeviceList(pass[2].answer)
    /\ pass[2].answer.results # << >> /\ ~HasIdentifier(pass[2].answer)
    /\ reg.whatsapp_api_latency_seconds["/user/my/groups"] = 1
    /\ reg.whatsapp_api_latency_seconds["/app/devices"] = 2

(***************************************************************************)
(* Overlapping scrapes.  Starlette serves every GET /metrics in a task of  *)
(* its own, so a second request may arrive while an earlier pass is        *)
(* suspended at any of its awaits; all passes write the one registry.  The *)
(* environment is kept small: the store answers every query and is written *)
(* to once, between the answers to two passes' sender rankings; the remote *)
(* API fails, has no device or has one device.  Store and remote together  *)
(* change at most once.                                                    *)
(***************************************************************************)
StoreBefore == StoreOf("A", {}, {})
StoreAfter == StoreOf("B", {}, {})
OverlapRemotes ==
    { Answer(FALSE, 0, FALSE, << >>),
      Answer(TRUE, HttpOk, TRUE, << >>),
      Answer(TRUE, HttpOk, TRUE, << Device(JStr("Phone"), JStr("dev1")) >>) }

InitOverlap ==
    /\ reg = Registry0
    /\ pass = [p \in Passes |-> IdlePass]
    /\ store = StoreBefore
    /\ remote \in OverlapRemotes
    /\ clock = StartClock
    /\ changed = FALSE

\* GET /metrics arrives, whether or not earlier passes have been answered.
OverlapRequest(p) ==
    /\ pass[p].st = "idle"
    /\ \A q \in Passes : q < p => pass[q].st # "idle"
    /\ pass' = [pass EXCEPT ![p] =
                  [@ EXCEPT !.st = "running", !.wa_pc = "devices", !.db_pc = 1,
                            !.start = clock, !.issued = {1},
                            !.env = << store, remote >>]]
    /\ reg' = BeforeAwait(reg, DbSteps[1])
    /\ UNCHANGED << store, remote, clock, changed >>

\* The store is written to after one pass got the answer to its sender
\* ranking and while another pass awaits the answer to its own.
StoreWrite ==
    /\ ~changed
    /\ store = StoreBefore
    /\ \E p, q \in Passes : AtStep(p, "per_sender") /\ pass[q].sender_rows.ok
    /\ store' = StoreAfter
    /\ changed' = TRUE
    /\ UNCHANGED << reg, pass, remote, clock >>

\* The remote API starts to answer differently.
RemoteFlip ==
    /\ Started >= 1
    /\ ~changed
    /\ \E a \in OverlapRemotes \ {remote} : remote' = a
    /\ changed' = TRUE
    /\ UNCHANGED << reg, pass, store, clock >>

NextOverlap ==
    \/ \E p \in Passes :
          \/ OverlapRequest(p)
          \/ WaDevices(p)
          \/ WaGroups(p)
          \/ DbConnect(p)
          \/ DbScalar(p)
          \/ DbPerGroup(p)
          \/ DbPerSender(p)
          \/ DbOptional(p)
          \/ DbRows(p)
          \/ DbExit(p)
          \/ MetricsRespond(p)
    \/ StoreWrite
    \/ RemoteFlip

SpecOverlap == InitOverlap /\ [][NextOverlap]_vars

\* The label sets the sender rankings of the passes have returned so far.
RankingResults == {pass[q].sender_rows.labels : q \in {r \in Passes : pass[r].sender_rows.ok}}
\* C16 (as claimed): no rendering of the registry sees messages_per_sender
\* between its clear and its repopulation, and what overlapping passes leave
\* is one pass's ranking result: the label set every response shows is the
\* result of a single pass's ranking query.
C16_Claim ==
    \A p \in Passes :
        pass[p].st = "done" =>
            DOMAIN pass[p].response.body.messages_per_sender \in RankingResults

\* The gauge written from statement i has in r the value it has in r0.
SameAsBefore(i, r, r0) ==
    CASE DbSteps[i].kind = "scalar" ->
            r.gauge[GaugeOf(DbSteps[i].q)] = r0.gauge[GaugeOf(DbSteps[i].q)]
      [] DbSteps[i].kind = "per_group" -> r.messages_per_group = r0.messages_per_group
      [] DbSteps[i].kind = "per_sender" -> r.messages_per_sender = r0.messages_per_sender
      [] OTHER -> TRUE
\* C17 (as claimed): the gauge of the query that raised in a pass holds, when
\* the batch has ended, the value and label tuples it held before the pass; in
\* particular messages_per_sender when the sender ranking raised.
C17_Claim ==
    \A p \in Passes :
        (Latest(p) /\ pass[p].db_pc = DbDonePc /\ pass[p].failed_at # 0) =>
            SameAsBefore(pass[p].failed_at, reg, Before(p))

\* C18 (as claimed): a pass whose connectivity probe succeeded ends with
\* db_connection_status at 1 and without a new database_error, whatever later
\* statement of the batch failed.
C18_Claim ==
    \A p \in Passes :
        (Latest(p) /\ pass[p].st = "done" /\ pass[p].probe = "ok") =>
            /\ reg.gauge["db_connection_status"] = 1
            /\ reg.scrape_errors_total["database_error"]
                 = Before(p).scrape_errors_total["database_error"]

\* C19: in every reachable state, also while passes overlap and after failed
\* devices calls, whatsapp_connection_status = 1 implies
\* whatsapp_devices_total >= 1.
C19_ConnectedHasDevice ==
    reg.gauge["whatsapp_connection_status"] = 1 =>
        reg.gauge["whatsapp_devices_total"] >= 1
\* Two passes are in flight; the devices call of the second failed, and the
\* answer to the first pass's call, which arrived afterwards, reported a device.
C19_Witness ==
    /\ MaxPasses >= 2
    /\ pass[1].st = "running" /\ pass[2].st = "running"
    /\ pass[2].wa_pc = "done" /\ pass[2].answer # NoAnswer
    /\ ~pass[2].answer.transport_ok
    /\ HasIdentifier(pass[1].answer)
    /\ reg.scrape_errors_total["whatsapp_connection_error"] = 1
    /\ reg.gauge["whatsapp_connection_status"] = 1
    /\ reg.gauge["whatsapp_devices_total"] = 1

\* C20 (as claimed): in every reachable state messages_per_sender holds at
\* most 10 label tuples and messages_per_group at most 50.
C20_Claim ==
    /\ Cardinality(DOMAIN reg.messages_per_sender) <= SenderLimit
    /\ Cardinality(DOMAIN reg.messages_per_group) <= GroupLimit

\* C21: after a pass that followed the previous one, in which no statement
\* raised and the store was not written to, the message gauges agree:
\* messages_last_hour <= messages_last_24h <= messages_total,
\* messages_today <= messages_last_24h, and
\* messages_direct_total + messages_group_total = messages_total.
C21_MessageGaugesConsistent ==
    \A p \in Passes :
        (pass[p].st = "done" /\ ~pass[p].db_raised) =>
            LET g == pass[p].response.body.gauge IN
            /\ g["messages_last_hour"] <= g["messages_last_24h"]
            /\ g["messages_last_24h"] <= g["messages_total"]
            /\ g["messages_today"] <= g["messages_last_24h"]
            /\ g["messages_direct_total"] + g["messages_group_total"]
                 = g["messages_total"]
\* A pass over a healthy store was answered an hour after the first, with
\* messages inside and outside each window and both direct and group messages.
C21_Witness ==
    /\ MaxPasses >= 2
    /\ pass[2].st = "done" /\ ~pass[2].db_raised
    /\ pass[2].env[1].failing = {} /\ pass[2].env[1].absent = {}
    /\ pass[2].now = StartClock + 1
    /\ LET g == pass[2].response.body.gauge IN
        /\ 0 < g["messages_today"] /\ 0 < g["messages_last_hour"]
        /\ g["messages_last_hour"] < g["messages_last_24h"]
        /\ g["messages_last_24h"] < g["messages_total"]
        /\ g["messages_today"] < g["messages_last_24h"]
        /\ 0 < g["messages_direct_total"] /\ 0 < g["messages_group_total"]

====
